---- MODULE Spec2Model ----
(***************************************************************************)
(* Model of scripts/generate_icons.py: the PNG encoder create_png (byte     *)
(* level) and the orchestrator main, over a small file system.              *)
(*                                                                          *)
(* Bytes are integers 0..255 and byte strings are sequences of them.        *)
(* Python integers are unbounded; an integer argument n is carried as the   *)
(* record [hi, lo] with n = hi * 65536 + lo and lo in 0..65535, so that     *)
(* values on both sides of the unsigned 32-bit range can be written down.   *)
(***************************************************************************)
EXTENDS Integers, Sequences, FiniteSets, TLC

----------------------------------------------------------------------------
(* Bounds of the model.                                                     *)

\* Largest valid width/height the encoder is called with directly.
MaxDim == 2
\* Longest scanline buffer (bytes) that is expanded to bytes; a longer one
\* is kept as a summary of the IDAT chunk (see idat_chunk).
MaxRaw == 40
\* Number of runs of main made one after the other.
MaxRuns == 2

----------------------------------------------------------------------------
(* Python integers.                                                         *)

Limb == 256 * 256

PyInt(n) == [hi |-> n \div Limb, lo |-> n % Limb]

\* 2^32, the first value that no longer fits struct's 'I' field.
TwoPow32 == [hi |-> Limb, lo |-> 0]

\* n as a number of loop iterations: range(n) is empty for n <= 0.
RangeLen(n) == IF n.hi < 0 THEN 0 ELSE n.hi * Limb + n.lo

IsPositive(n) == n.hi > 0 \/ (n.hi = 0 /\ n.lo > 0)

----------------------------------------------------------------------------
(* struct.pack('>I', n): four bytes, big-endian; struct.error unless        *)
(* 0 <= n <= 4294967295.                                                    *)

FitsU32(n) == n.hi >= 0 /\ n.hi < Limb

pack_I(n) == <<n.hi \div 256, n.hi % 256, n.lo \div 256, n.lo % 256>>

\* The inverse reading of a big-endian 4-byte field (used to decode output).
unpack_I(bs) == [hi |-> bs[1] * 256 + bs[2], lo |-> bs[3] * 256 + bs[4]]

----------------------------------------------------------------------------
(* zlib.crc32: CRC-32 (ISO 3309), reflected polynomial EDB88320, initial    *)
(* value FFFFFFFF, final complement.  A CRC value is its four bytes, most   *)
(* significant first, which is also what struct.pack('>I', crc) emits.      *)

RECURSIVE XorN(_, _, _)
XorN(a, b, n) ==
    IF n = 0 THEN 0 ELSE ((a + b) % 2) + 2 * XorN(a \div 2, b \div 2, n - 1)

XorTab == [a \in 0..255 |-> [b \in 0..255 |-> XorN(a, b, 8)]]

Xor8(a, b) == XorTab[a][b]

Xor32(c, d) == <<Xor8(c[1], d[1]), Xor8(c[2], d[2]), Xor8(c[3], d[3]), Xor8(c[4], d[4])>>

Shr1(c) == <<c[1] \div 2,
             (c[1] % 2) * 128 + c[2] \div 2,
             (c[2] % 2) * 128 + c[3] \div 2,
             (c[3] % 2) * 128 + c[4] \div 2>>

CrcPoly == <<237, 184, 131, 32>>

RECURSIVE CrcBits(_, _)
CrcBits(c, n) ==
    IF n = 0 THEN c
    ELSE CrcBits(IF c[4] % 2 = 1 THEN Xor32(Shr1(c), CrcPoly) ELSE Shr1(c), n - 1)

CrcTable == [i \in 0..255 |-> CrcBits(<<0, 0, 0, i>>, 8)]

\* One byte through the register c (table-driven, as zlib does it).
CrcByte(c, byte) ==
    LET t == CrcTable[Xor8(c[4], byte)]
    IN  <<t[1], Xor8(t[2], c[1]), Xor8(t[3], c[2]), Xor8(t[4], c[3])>>

\* The register after bytes k.. of data, from register c.  The test on c is
\* always true; it makes TLC evaluate the register at every byte instead
\* of building one nested expression as long as the data.
RECURSIVE CrcUpdate(_, _, _)
CrcUpdate(c, data, k) ==
    IF c[4] \in 0..255 /\ k <= Len(data)
    THEN CrcUpdate(CrcByte(c, data[k]), data, k + 1)
    ELSE c

crc32(data) ==
    Xor32(CrcUpdate(<<255, 255, 255, 255>>, data, 1), <<255, 255, 255, 255>>)

----------------------------------------------------------------------------
(* zlib.compress and its inverse.  The library's deflate output is not      *)
(* reproduced bit for bit: compress is modelled as the zlib stream that     *)
(* carries the data in one stored block (header 78 9C, block header 01 LEN  *)
(* NLEN, the data, big-endian Adler-32), which every inflater decodes back  *)
(* to the same data.                                                        *)

AdlerMod == 65521

RECURSIVE AdlerUpdate(_, _, _, _)
AdlerUpdate(a, b, data, k) ==
    IF k > Len(data) THEN <<b \div 256, b % 256, a \div 256, a % 256>>
    ELSE LET a2 == (a + data[k]) % AdlerMod
         IN  AdlerUpdate(a2, (b + a2) % AdlerMod, data, k + 1)

adler32(data) == AdlerUpdate(1, 0, data, 1)

compress(data) ==
    LET n == Len(data)
    IN  <<120, 156, 1, n % 256, n \div 256, 255 - (n % 256), 255 - (n \div 256)>>
        \o data \o adler32(data)

\* <<>> stands for "not a valid stream".
decompress(z) ==
    IF Len(z) < 11 THEN <<>>
    ELSE LET n    == z[4] + 256 * z[5]
             data == SubSeq(z, 8, 7 + n)
         IN  IF /\ z[1] = 120 /\ z[2] = 156 /\ z[3] = 1
                /\ z[6] = 255 - z[4] /\ z[7] = 255 - z[5]
                /\ Len(z) = 11 + n
                /\ SubSeq(z, 8 + n, 11 + n) = adler32(data)
             THEN data ELSE <<>>

----------------------------------------------------------------------------
(* create_png, lines 15-40: the byte stream.                                *)

signature == <<137, 80, 78, 71, 13, 10, 26, 10>>

IHDR == <<73, 72, 68, 82>>
IDAT == <<73, 68, 65, 84>>
IEND == <<73, 69, 78, 68>>

\* A plausible slip: the CRC also covers the length field.
png_chunk_crc_over_len(chunk_type, data) ==
    LET chunk_len == pack_I(PyInt(Len(data)))
        chunk_crc == crc32(chunk_len \o chunk_type \o data)
    IN  chunk_len \o chunk_type \o data \o chunk_crc

png_chunk(chunk_type, data) ==
    LET chunk_len == pack_I(PyInt(Len(data)))
        chunk_crc == crc32(chunk_type \o data)
    IN  chunk_len \o chunk_type \o data \o chunk_crc

\* A plausible slip: colour type 6 (RGBA) declared for 3-byte pixels.
ihdr_data_rgba(width, height) ==
    pack_I(width) \o pack_I(height) \o <<8, 6, 0, 0, 0>>

ihdr_data(width, height) ==
    pack_I(width) \o pack_I(height) \o <<8, 2, 0, 0, 0>>

RECURSIVE PixelLoop(_, _, _, _, _)
PixelLoop(raw, n, r, g, b) ==
    IF n = 0 THEN raw ELSE PixelLoop(raw \o <<r, g, b>>, n - 1, r, g, b)

RECURSIVE RowLoop(_, _, _, _, _, _)
RowLoop(raw, rows, cols, r, g, b) ==
    IF rows = 0 THEN raw
    ELSE RowLoop(PixelLoop(raw \o <<0>>, cols, r, g, b), rows - 1, cols, r, g, b)

\* A plausible slip: the filter byte written once, not once per row.
RECURSIVE RowLoopNoFilter(_, _, _, _, _, _)
RowLoopNoFilter(raw, rows, cols, r, g, b) ==
    IF rows = 0 THEN raw
    ELSE RowLoopNoFilter(PixelLoop(raw, cols, r, g, b), rows - 1, cols, r, g, b)

raw_data_one_filter(width, height, r, g, b) ==
    RowLoopNoFilter(<<0>>, RangeLen(height), RangeLen(width), r, g, b)

raw_data(width, height, r, g, b) ==
    RowLoop(<<>>, RangeLen(height), RangeLen(width), r, g, b)

RawLen(width, height) == RangeLen(height) * (1 + 3 * RangeLen(width))

\* Whether the scanline buffer of a width x height image is expanded to bytes.
Expanded(width, height) == RawLen(width, height) <= MaxRaw

\* The IDAT chunk of an image too large to expand: five negative numbers
\* (never bytes) that name the chunk by what it encodes.
IdatSummary(width, height, r, g, b) ==
    <<-1 - RangeLen(width), -1 - RangeLen(height), -1 - r, -1 - g, -1 - b>>

idat_chunk(width, height, r, g, b) ==
    IF Expanded(width, height)
    THEN png_chunk(IDAT, compress(raw_data(width, height, r, g, b)))
    ELSE IdatSummary(width, height, r, g, b)

\* The exception lines 15-40 raise for these arguments, or "none".
EncodeError(width, height, rgb_color) ==
    IF Len(rgb_color) # 3 THEN "ValueError"                       \* line 15
    ELSE IF ~FitsU32(width) \/ ~FitsU32(height) THEN "struct.error"  \* line 26
    ELSE IF /\ RangeLen(height) >= 1 /\ RangeLen(width) >= 1
            /\ \E i \in 1..3 : rgb_color[i] \notin 0..255
         THEN "ValueError"                                        \* line 34
    ELSE "none"

\* signature + ihdr + idat + iend, line 46.
png_bytes(width, height, rgb_color) ==
    signature
    \o png_chunk(IHDR, ihdr_data(width, height))
    \o idat_chunk(width, height, rgb_color[1], rgb_color[2], rgb_color[3])
    \o png_chunk(IEND, <<>>)

----------------------------------------------------------------------------
(* main, lines 48-63: the literals.                                         *)

teal == <<0, 150, 136>>

ResDir == <<"android", "app", "src", "main", "res">>

\* A plausible slip: two sizes exchanged between their paths.
icons_swapped ==
    << [size |-> 72,  relative_path |-> ResDir \o <<"mipmap-mdpi", "ic_launcher.png">>],
       [size |-> 48,  relative_path |-> ResDir \o <<"mipmap-hdpi", "ic_launcher.png">>],
       [size |-> 96,  relative_path |-> ResDir \o <<"mipmap-xhdpi", "ic_launcher.png">>],
       [size |-> 144, relative_path |-> ResDir \o <<"mipmap-xxhdpi", "ic_launcher.png">>],
       [size |-> 192, relative_path |-> ResDir \o <<"mipmap-xxxhdpi", "ic_launcher.png">>] >>

icons ==
    << [size |-> 48,  relative_path |-> ResDir \o <<"mipmap-mdpi", "ic_launcher.png">>],
       [size |-> 72,  relative_path |-> ResDir \o <<"mipmap-hdpi", "ic_launcher.png">>],
       [size |-> 96,  relative_path |-> ResDir \o <<"mipmap-xhdpi", "ic_launcher.png">>],
       [size |-> 144, relative_path |-> ResDir \o <<"mipmap-xxhdpi", "ic_launcher.png">>],
       [size |-> 192, relative_path |-> ResDir \o <<"mipmap-xxxhdpi", "ic_launcher.png">>] >>

\* project_root (lines 50-51) is one path component; a path is the sequence
\* of its components and the empty sequence is the empty string ''.
project_root == <<"<project_root>">>

\* os.path.join(project_root, relative_path), line 68.
join(root, relative_path) == root \o relative_path

\* os.path.dirname
dirname(path) == SubSeq(path, 1, Len(path) - 1)

Prefix(path, n) == SubSeq(path, 1, n)

\* Lines of standard output.
Line(text, path, size) == [text |-> text, path |-> path, size |-> size]
GeneratingLine == Line("Generating launcher icons...", <<>>, 0)
CreatedLine(i) == Line("  Created", icons[i].relative_path, icons[i].size)
FinishLines ==
    << Line("\nAll icons created successfully!", <<>>, 0),
       Line("\nNote: These are placeholder icons (solid teal squares).", <<>>, 0),
       Line("For a production app, replace them with proper designed icons.", <<>>, 0) >>

----------------------------------------------------------------------------
(* State.                                                                   *)

VARIABLES
    dirs,    \* the directories that exist, each a path
    files,   \* the regular files that exist: path -> content
    procs,   \* the running interpreters: id -> frame (see Frame)
    fs0      \* the file system before anything ran (never changes)

vars == <<dirs, files, procs, fs0>>

\* The frame of one interpreter: where it is (pc), the arguments and locals
\* of the create_png call in progress, main's loop index k (0 outside main),
\* what it printed, what it did to files (log), the directories that
\* os.makedirs saw missing and whose mkdir then found them present (eexist),
\* and what the previous run left (prev_done, prev_files).
Frame(mode, pc) ==
    [ mode |-> mode, pc |-> pc, run |-> 1, k |-> 0,
      width |-> PyInt(0), height |-> PyInt(0), rgb_color |-> <<>>, filepath |-> <<>>,
      raw |-> <<>>, buf |-> <<>>, md |-> 0, pending |-> FALSE, exc |-> "none",
      stdout |-> <<>>, log |-> <<>>, eexist |-> {},
      prev_done |-> FALSE, prev_files |-> <<>> ]

Event(ev, k) == [ev |-> ev, k |-> k]

WriteFile(path, content) == (path :> content) @@ files

\* Writing data at offset 0 of a file holding old.
Overlay(old, data) == data \o SubSeq(old, Len(data) + 1, Len(old))

----------------------------------------------------------------------------
(* create_png.                                                              *)

\* A plausible slip: the directory is made before the stream is built.
EncodeMkdirFirst(p) ==
    LET f == procs[p]
        err == EncodeError(f.width, f.height, f.rgb_color)
        d == dirname(f.filepath)
    IN  /\ f.pc = "encode"
        /\ dirs' = dirs \cup {Prefix(d, n) : n \in 1..Len(d)}
        /\ IF err # "none"
           THEN procs' = [procs EXCEPT ![p].pc = "raised", ![p].exc = err]
           ELSE procs' = [procs EXCEPT
                    ![p].pc = "makedirs",
                    ![p].buf = png_bytes(f.width, f.height, f.rgb_color)]
        /\ UNCHANGED <<files, fs0>>

\* Lines 15-40: unpack the colour, build signature, ihdr, idat and iend.
Encode(p) ==
    LET f == procs[p]
        err == EncodeError(f.width, f.height, f.rgb_color)
    IN  /\ f.pc = "encode"
        /\ IF err # "none"
           THEN procs' = [procs EXCEPT ![p].pc = "raised", ![p].exc = err]
           ELSE procs' = [procs EXCEPT
                    ![p].pc = "makedirs",
                    ![p].raw = IF Expanded(f.width, f.height)
                               THEN raw_data(f.width, f.height, f.rgb_color[1],
                                             f.rgb_color[2], f.rgb_color[3])
                               ELSE <<>>,
                    ![p].buf = png_bytes(f.width, f.height, f.rgb_color)]
        /\ UNCHANGED <<dirs, files, fs0>>

\* The exist_ok argument of line 43.
exist_ok_false == FALSE

exist_ok == TRUE

\* Line 43, os.makedirs(name, exist_ok=True), entered: os.mkdir('') raises
\* FileNotFoundError for an empty name; otherwise the walk up starts at the
\* name itself.
MakedirsEnter(p) ==
    LET f == procs[p]
        name == dirname(f.filepath)
    IN  /\ f.pc = "makedirs"
        /\ IF name = <<>>
           THEN procs' = [procs EXCEPT ![p].pc = "raised", ![p].exc = "FileNotFoundError"]
           ELSE procs' = [procs EXCEPT ![p].pc = "probe", ![p].md = Len(name)]
        /\ UNCHANGED <<dirs, files, fs0>>

\* os.makedirs, one level: "if head and tail and not path.exists(head)" goes
\* up one level (the recursive call), otherwise this level's mkdir is next.
MakedirsProbe(p) ==
    LET f == procs[p]
        name == dirname(f.filepath)
        head == Prefix(name, f.md - 1)
    IN  /\ f.pc = "probe"
        /\ IF head # <<>> /\ head \notin dirs
           THEN procs' = [procs EXCEPT ![p].md = f.md - 1]
           ELSE procs' = [procs EXCEPT ![p].pc = "mkdir"]
        /\ UNCHANGED <<dirs, files, fs0>>

\* os.makedirs, one level's mkdir.  On an existing directory mkdir raises
\* FileExistsError, which is passed over when exist_ok; on return the level
\* below (the caller) does its own mkdir, and the last level leads to open.
MakedirsMkdir(p) ==
    LET f == procs[p]
        name == dirname(f.filepath)
        d == Prefix(name, f.md)
        next == IF f.md = Len(name)
                THEN [f EXCEPT !.pc = "open"]
                ELSE [f EXCEPT !.md = f.md + 1]
    IN  /\ f.pc = "mkdir"
        /\ IF d \in dirs
           THEN /\ dirs' = dirs
                /\ IF exist_ok
                   THEN procs' = [procs EXCEPT ![p] =
                                    [next EXCEPT !.eexist =
                                        IF f.md < Len(name) THEN f.eexist \cup {d}
                                        ELSE f.eexist]]
                   ELSE procs' = [procs EXCEPT ![p].pc = "raised",
                                               ![p].exc = "FileExistsError"]
           ELSE /\ dirs' = dirs \cup {d}
                /\ procs' = [procs EXCEPT ![p] = next]
        /\ UNCHANGED <<files, fs0>>

\* A plausible slip: a mode that does not truncate ('r+b' after creation).
OpenNoTruncate(p) ==
    LET f == procs[p]
    IN  /\ f.pc = "open"
        /\ files' = IF f.filepath \in DOMAIN files THEN files
                    ELSE WriteFile(f.filepath, <<>>)
        /\ procs' = [procs EXCEPT ![p].pc = "write",
                                  ![p].log = Append(f.log, Event("open", f.k))]
        /\ UNCHANGED <<dirs, fs0>>

\* Line 45, open(filepath, 'wb'): the file is created or truncated.
Open(p) ==
    LET f == procs[p]
    IN  /\ f.pc = "open"
        /\ files' = WriteFile(f.filepath, <<>>)
        /\ procs' = [procs EXCEPT ![p].pc = "write",
                                  ![p].log = Append(f.log, Event("open", f.k))]
        /\ UNCHANGED <<dirs, fs0>>

\* Line 46, f.write(signature + ihdr + idat + iend): the whole buffer in one
\* call, for the start of the file.  The file object is buffered: the bytes
\* reach the file now, or stay in its buffer until the file is closed.
Write(p) ==
    LET f == procs[p]
    IN  /\ f.pc = "write"
        /\ \/ /\ files' = [files EXCEPT ![f.filepath] = Overlay(@, f.buf)]
              /\ procs' = [procs EXCEPT ![p].pc = "close",
                                        ![p].log = Append(f.log, Event("write", f.k))]
           \/ /\ files' = files
              /\ procs' = [procs EXCEPT ![p].pc = "close", ![p].pending = TRUE,
                                        ![p].log = Append(f.log, Event("write", f.k))]
        /\ UNCHANGED <<dirs, fs0>>

\* Lines 45-46, leaving the with block: what is still buffered is written,
\* the file is closed, and create_png returns.
Close(p) ==
    LET f == procs[p]
    IN  /\ f.pc = "close"
        /\ files' = IF f.pending
                    THEN [files EXCEPT ![f.filepath] = Overlay(@, f.buf)]
                    ELSE files
        /\ procs' = [procs EXCEPT ![p].pc = "returned", ![p].pending = FALSE,
                                  ![p].log = Append(f.log, Event("close", f.k))]
        /\ UNCHANGED <<dirs, fs0>>

----------------------------------------------------------------------------
(* Failures of the environment (permission denied, disk full), which the    *)
(* code does not catch: the exception leaves create_png.                    *)

\* os.mkdir fails inside os.makedirs, line 43.
MkdirFail(p) ==
    LET f == procs[p]
    IN  /\ f.pc = "mkdir"
        /\ Prefix(dirname(f.filepath), f.md) \notin dirs
        /\ procs' = [procs EXCEPT ![p].pc = "raised", ![p].exc = "OSError"]
        /\ UNCHANGED <<dirs, files, fs0>>

\* open fails, line 45: nothing is created or truncated.
OpenFail(p) ==
    LET f == procs[p]
    IN  /\ f.pc = "open"
        /\ procs' = [procs EXCEPT ![p].pc = "raised", ![p].exc = "OSError"]
        /\ UNCHANGED <<dirs, files, fs0>>

\* write fails, line 46, after n bytes reached the file; the with block
\* closes the file and the exception goes on.
WriteFail(p) ==
    LET f == procs[p]
    IN  /\ f.pc = "write"
        /\ \E n \in {0, Len(f.buf) \div 2} :
               files' = [files EXCEPT ![f.filepath] = Overlay(@, SubSeq(f.buf, 1, n))]
        /\ procs' = [procs EXCEPT ![p].pc = "raised", ![p].exc = "OSError",
                                  ![p].log = Append(f.log, Event("write failed", f.k))]
        /\ UNCHANGED <<dirs, fs0>>

----------------------------------------------------------------------------
(* main.                                                                    *)

\* Lines 50-65: the literals are set up and the first line is printed.
MainBegin(p) ==
    LET f == procs[p]
    IN  /\ f.mode = "main" /\ f.pc = "main"
        /\ procs' = [procs EXCEPT ![p].pc = "loop", ![p].k = 1,
                                  ![p].stdout = Append(f.stdout, GeneratingLine)]
        /\ UNCHANGED <<dirs, files, fs0>>

\* Lines 67-69: the next icon's create_png call, or the end of the loop.
MainLoop(p) ==
    LET f == procs[p]
    IN  /\ f.mode = "main" /\ f.pc = "loop"
        /\ IF f.k <= Len(icons)
           THEN procs' = [procs EXCEPT
                    ![p].pc = "encode",
                    ![p].width = PyInt(icons[f.k].size),
                    ![p].height = PyInt(icons[f.k].size),
                    ![p].rgb_color = teal,
                    ![p].filepath = join(project_root, icons[f.k].relative_path),
                    ![p].raw = <<>>, ![p].buf = <<>>, ![p].md = 0]
           ELSE procs' = [procs EXCEPT ![p].pc = "finish"]
        /\ UNCHANGED <<dirs, files, fs0>>

\* Line 70: the progress line, after create_png returned.
MainProgress(p) ==
    LET f == procs[p]
    IN  /\ f.mode = "main" /\ f.pc = "returned"
        /\ procs' = [procs EXCEPT ![p].pc = "loop", ![p].k = f.k + 1,
                                  ![p].stdout = Append(f.stdout, CreatedLine(f.k)),
                                  ![p].log = Append(f.log, Event("print", f.k))]
        /\ UNCHANGED <<dirs, files, fs0>>

\* Lines 72-74: the completion message and the note.
MainFinish(p) ==
    LET f == procs[p]
    IN  /\ f.mode = "main" /\ f.pc = "finish"
        /\ procs' = [procs EXCEPT ![p].pc = "done",
                                  ![p].stdout = f.stdout \o FinishLines,
                                  ![p].log = Append(f.log, Event("finish", 0))]
        /\ UNCHANGED <<dirs, files, fs0>>

\* A plausible slip: the loop body wrapped in try/except that goes on.
PropagateSwallowed(p) ==
    LET f == procs[p]
    IN  /\ f.mode = "main" /\ f.pc = "raised"
        /\ procs' = [procs EXCEPT ![p].pc = "loop", ![p].k = f.k + 1]
        /\ UNCHANGED <<dirs, files, fs0>>

\* Lines 67-69 have no try: an exception of create_png ends main.
Propagate(p) ==
    LET f == procs[p]
    IN  /\ f.mode = "main" /\ f.pc = "raised"
        /\ procs' = [procs EXCEPT ![p].pc = "failed"]
        /\ UNCHANGED <<dirs, files, fs0>>

\* The script is started again (line 77) after a run ended.
Rerun(p) ==
    LET f == procs[p]
    IN  /\ f.mode = "main" /\ f.pc \in {"done", "failed"}
        /\ f.run < MaxRuns
        /\ procs' = [procs EXCEPT ![p] =
                        [Frame("main", "main") EXCEPT
                            !.run = f.run + 1,
                            !.prev_done = (f.pc = "done"),
                            !.prev_files = files]]
        /\ UNCHANGED <<dirs, files, fs0>>

----------------------------------------------------------------------------
(* The file systems and arguments the runs start from.                      *)

IconPath(i) == join(project_root, icons[i].relative_path)
IconPaths == {IconPath(i) : i \in 1..Len(icons)}
AllPrefixes(path) == {Prefix(path, n) : n \in 1..Len(path)}

\* An older, longer file at an icon's path.
Stale == png_bytes(PyInt(192), PyInt(192), <<255, 255, 255>>) \o <<0, 0, 0>>

EmptyTree == [dirs |-> {project_root}, files |-> <<>>]
ResTree   == [dirs |-> AllPrefixes(project_root \o ResDir), files |-> <<>>]
StaleTree ==
    [dirs  |-> UNION {AllPrefixes(dirname(q)) : q \in IconPaths},
     files |-> [q \in IconPaths |-> Stale]]
MainTrees == {EmptyTree, ResTree, StaleTree}

\* Arguments of direct calls of create_png.
Dims == {PyInt(n) : n \in -1..MaxDim} \cup {TwoPow32}
Colors == {teal, <<0, 0, 0>>, <<255, 255, 255>>, <<1, 2, 3>>,
           <<256, 0, 0>>, <<0, -1, 0>>, <<0, 150>>, <<0, 150, 136, 255>>}
Paths == {<<"icon.png">>, <<"out", "icon.png">>, <<"out", "a", "b", "icon.png">>}
CallTrees ==
    {[dirs |-> {}, files |-> <<>>],
     [dirs |-> {<<"out">>},
      files |-> (<<"out", "icon.png">> :> <<1, 2, 3>>) @@ (<<"icon.png">> :> <<1, 2, 3>>)]}

----------------------------------------------------------------------------
(* Specifications.                                                          *)

\* One direct call of create_png with arguments from the sets above.
InitEnc ==
    /\ \E t \in CallTrees : dirs = t.dirs /\ files = t.files /\ fs0 = t
    /\ \E w \in Dims, h \in Dims, c \in Colors, q \in Paths :
           procs = [p \in {1} |->
                      [Frame("call", "encode") EXCEPT
                          !.width = w, !.height = h, !.rgb_color = c, !.filepath = q]]

NextEnc ==
    \/ \E p \in DOMAIN procs : Encode(p)
    \/ \E p \in DOMAIN procs : MakedirsEnter(p)
    \/ \E p \in DOMAIN procs : MakedirsProbe(p)
    \/ \E p \in DOMAIN procs : MakedirsMkdir(p)
    \/ \E p \in DOMAIN procs : Open(p)
    \/ \E p \in DOMAIN procs : Write(p)
    \/ \E p \in DOMAIN procs : Close(p)

SpecEnc == InitEnc /\ [][NextEnc]_vars

\* Runs of main, one after the other, with failures of the environment.
InitMain ==
    /\ \E t \in MainTrees : dirs = t.dirs /\ files = t.files /\ fs0 = t
    /\ procs = [p \in {1} |-> Frame("main", "main")]

NextMain ==
    \/ \E p \in DOMAIN procs : MainBegin(p)
    \/ \E p \in DOMAIN procs : MainLoop(p)
    \/ \E p \in DOMAIN procs : Encode(p)
    \/ \E p \in DOMAIN procs : MakedirsEnter(p)
    \/ \E p \in DOMAIN procs : MakedirsProbe(p)
    \/ \E p \in DOMAIN procs : MakedirsMkdir(p)
    \/ \E p \in DOMAIN procs : Open(p)
    \/ \E p \in DOMAIN procs : Write(p)
    \/ \E p \in DOMAIN procs : Close(p)
    \/ \E p \in DOMAIN procs : MainProgress(p)
    \/ \E p \in DOMAIN procs : MainFinish(p)
    \/ \E p \in DOMAIN procs : MkdirFail(p)
    \/ \E p \in DOMAIN procs : OpenFail(p)
    \/ \E p \in DOMAIN procs : WriteFail(p)
    \/ \E p \in DOMAIN procs : Propagate(p)
    \/ \E p \in DOMAIN procs : Rerun(p)

Spec == InitMain /\ [][NextMain]_vars

\* Two runs of main at the same time on one project root.  No I/O failure is
\* injected here, so an exception can only come from the race itself; a
\* process that raised stays at "raised".
InitConc ==
    /\ \E t \in {EmptyTree, ResTree} : dirs = t.dirs /\ files = t.files /\ fs0 = t
    /\ procs = [p \in {1, 2} |-> Frame("main", "main")]

NextConc ==
    \/ \E p \in DOMAIN procs : MainBegin(p)
    \/ \E p \in DOMAIN procs : MainLoop(p)
    \/ \E p \in DOMAIN procs : Encode(p)
    \/ \E p \in DOMAIN procs : MakedirsEnter(p)
    \/ \E p \in DOMAIN procs : MakedirsProbe(p)
    \/ \E p \in DOMAIN procs : MakedirsMkdir(p)
    \/ \E p \in DOMAIN procs : Open(p)
    \/ \E p \in DOMAIN procs : Write(p)
    \/ \E p \in DOMAIN procs : Close(p)
    \/ \E p \in DOMAIN procs : MainProgress(p)
    \/ \E p \in DOMAIN procs : MainFinish(p)

SpecConc == InitConc /\ [][NextConc]_vars

----------------------------------------------------------------------------
(* Reading a byte stream back, for the properties below.                    *)

\* n (0 <= n < 2^24) as a 4-byte big-endian field.
BE4(n) == <<0, n \div 65536, (n \div 256) % 256, n % 256>>

\* The chunks of bs from position i on.  A chunk that does not fit in what
\* is left is reported with ok = FALSE and ends the list.
RECURSIVE ParseChunks(_, _)
ParseChunks(bs, i) ==
    IF i > Len(bs) THEN <<>>
    ELSE IF i + 11 > Len(bs)
         THEN << [ok |-> FALSE, len |-> 0, type |-> <<>>, data |-> <<>>, crc |-> <<>>] >>
    ELSE LET n == RangeLen(unpack_I(SubSeq(bs, i, i + 3)))
         IN  IF i + 11 + n > Len(bs)
             THEN << [ok |-> FALSE, len |-> n, type |-> <<>>, data |-> <<>>, crc |-> <<>>] >>
             ELSE << [ok   |-> TRUE,
                      len  |-> n,
                      type |-> SubSeq(bs, i + 4, i + 7),
                      data |-> SubSeq(bs, i + 8, i + 7 + n),
                      crc  |-> SubSeq(bs, i + 8 + n, i + 11 + n)] >>
                  \o ParseChunks(bs, i + 12 + n)

Chunks(bs) == ParseChunks(bs, Len(signature) + 1)

\* Scanlines of an 8-bit truecolour image, filter type None: the pixel
\* rows, or <<>> when the buffer is not h rows of 1 + 3w bytes with filter 0.
Unfilter(raw, w, h) ==
    IF Len(raw) # h * (1 + 3 * w) \/ \E y \in 0..h-1 : raw[y * (1 + 3 * w) + 1] # 0
    THEN <<>>
    ELSE [y \in 1..h |-> [x \in 1..w |->
            LET o == (y - 1) * (1 + 3 * w) + 1 + 3 * (x - 1)
            IN  <<raw[o + 1], raw[o + 2], raw[o + 3]>>]]

IsPrefix(a, b) == Len(a) <= Len(b) /\ SubSeq(b, 1, Len(a)) = a

Built(f) == f.pc \in {"makedirs", "probe", "mkdir", "open", "write", "close", "returned"}
ValidColor(f) == Len(f.rgb_color) = 3 /\ \A i \in 1..3 : f.rgb_color[i] \in 0..255
ValidArgs(f) ==
    /\ IsPositive(f.width) /\ IsPositive(f.height)
    /\ FitsU32(f.width) /\ FitsU32(f.height)
    /\ ValidColor(f)

----------------------------------------------------------------------------
(* Properties of create_png, under SpecEnc.                                 *)

\* C1: for W, H >= 1 and channels in 0..255 the scanline buffer has length
\* H*(1+3W), each row is the filter byte 0 followed by W times R,G,B, it is
\* what the IDAT payload decompresses to, and unfiltering it gives W x H
\* pixels all equal to the colour.
C1_RawScanlines ==
    \A p \in DOMAIN procs :
        LET f == procs[p]
            w == RangeLen(f.width)
            h == RangeLen(f.height)
            row == 1 + 3 * w
        IN  (Built(f) /\ ValidArgs(f)) =>
              /\ Len(f.raw) = h * row
              /\ \A y \in 0..h-1 :
                    /\ f.raw[y * row + 1] = 0
                    /\ \A x \in 0..w-1 : \A i \in 1..3 :
                          f.raw[y * row + 1 + 3 * x + i] = f.rgb_color[i]
              /\ Len(Chunks(f.buf)) >= 2
              /\ decompress(Chunks(f.buf)[2].data) = f.raw
              /\ Unfilter(decompress(Chunks(f.buf)[2].data), w, h)
                   = [y \in 1..h |-> [x \in 1..w |-> f.rgb_color]]

C1_Witness ==
    \E p \in DOMAIN procs :
        /\ procs[p].pc = "returned"
        /\ procs[p].width = PyInt(2) /\ procs[p].height = PyInt(2)
        /\ procs[p].rgb_color = <<1, 2, 3>>

\* C2: for valid input the stream built, and the file written, is the
\* signature, an IHDR chunk with payload width, height (4 bytes big-endian
\* each), 8, 2, 0, 0, 0, one IDAT chunk, an empty IEND chunk, nothing else.
C2_StreamLayout ==
    \A p \in DOMAIN procs :
        LET f == procs[p]
            cs == Chunks(f.buf)
        IN  (Built(f) /\ ValidArgs(f)) =>
              /\ SubSeq(f.buf, 1, 8) = <<137, 80, 78, 71, 13, 10, 26, 10>>
              /\ Len(cs) = 3
              /\ \A c \in 1..3 : cs[c].ok
              /\ cs[1].type = <<73, 72, 68, 82>>
              /\ cs[1].data = BE4(RangeLen(f.width)) \o BE4(RangeLen(f.height))
                                \o <<8, 2, 0, 0, 0>>
              /\ Len(cs[1].data) = 13
              /\ cs[2].type = <<73, 68, 65, 84>>
              /\ cs[3].type = <<73, 69, 78, 68>>
              /\ cs[3].data = <<>>
              /\ Len(f.buf) = 8 + 12 + 13 + 12 + cs[2].len + 12
              /\ f.pc = "returned" => files[f.filepath] = f.buf

C2_Witness ==
    \E p \in DOMAIN procs :
        /\ procs[p].pc = "returned"
        /\ procs[p].width = PyInt(2) /\ procs[p].height = PyInt(1)
        /\ files[procs[p].filepath] = procs[p].buf

\* C3: every chunk of the stream is length (the number of payload bytes),
\* type, payload and the CRC-32 of type ++ payload, the length left out.
C3_ChunkIntegrity ==
    \A p \in DOMAIN procs :
        LET f == procs[p]
            cs == Chunks(f.buf)
        IN  Built(f) =>
              /\ Len(cs) = 3
              /\ \A c \in 1..Len(cs) :
                    /\ cs[c].ok
                    /\ cs[c].len = Len(cs[c].data)
                    /\ cs[c].crc = crc32(cs[c].type \o cs[c].data)

C3_Witness ==
    \E p \in DOMAIN procs :
        /\ procs[p].pc = "returned"
        /\ procs[p].width = PyInt(1) /\ procs[p].height = PyInt(2)
        /\ Chunks(procs[p].buf)[3].crc = <<174, 66, 96, 130>>

\* C4: a call with width <= 0 or height <= 0 (and a proper colour) fails
\* before anything is created or written: the file system stays as it was
\* and the call does not return normally.  (The name of the error is left
\* open here; the statement fails without it.)
C4_NonPositiveRejected ==
    \A p \in DOMAIN procs :
        LET f == procs[p]
        IN  (ValidColor(f) /\ (~IsPositive(f.width) \/ ~IsPositive(f.height))) =>
              /\ dirs = fs0.dirs /\ files = fs0.files
              /\ f.pc # "returned"

\* C9: whatever the destination path (parents missing at any depth, parent
\* present, no directory component), a call with valid arguments does not
\* fail over a directory, and the destination directory exists when the
\* file is opened (a path without directory component lies in the current
\* directory, which exists).
C9_DirectoryEnsured ==
    \A p \in DOMAIN procs :
        LET f == procs[p]
        IN  ValidArgs(f) =>
              /\ f.exc = "none"
              /\ f.pc # "raised"
              /\ f.pc \in {"open", "write", "close", "returned"} =>
                    (dirname(f.filepath) = <<>> \/ dirname(f.filepath) \in dirs)

\* C10: the file system is untouched until the whole stream is built, a
\* failure while encoding leaves it untouched for good, and the file gets
\* the whole buffer in one write: once opened it is empty or holds the
\* whole buffer, and it holds the whole buffer when the call returns.
C10_EncodeBeforeFileSystem ==
    \A p \in DOMAIN procs :
        LET f == procs[p]
        IN  /\ (f.pc = "encode" \/ f.exc \in {"ValueError", "struct.error"}) =>
                  (dirs = fs0.dirs /\ files = fs0.files)
            /\ (dirs # fs0.dirs \/ files # fs0.files) =>
                  /\ Built(f)
                  /\ Len(Chunks(f.buf)) = 3
                  /\ Chunks(f.buf)[3].ok /\ Chunks(f.buf)[3].type = <<73, 69, 78, 68>>
            /\ Cardinality({e \in 1..Len(f.log) : f.log[e].ev = "write"}) <= 1
            /\ f.pc \in {"write", "close"} => files[f.filepath] \in {<<>>, f.buf}
            /\ f.pc = "returned" => files[f.filepath] = f.buf

C10_Witness ==
    \E p \in DOMAIN procs :
        /\ procs[p].pc = "raised" /\ procs[p].exc = "struct.error"
        /\ procs[p].width = TwoPow32
        /\ procs[p].filepath = <<"out", "a", "b", "icon.png">>
        /\ fs0.dirs = {}

----------------------------------------------------------------------------
(* What the documentation promises of a run of main.                        *)

DocSizes == <<48, 72, 96, 144, 192>>
DocBuckets == <<"mipmap-mdpi", "mipmap-hdpi", "mipmap-xhdpi", "mipmap-xxhdpi", "mipmap-xxxhdpi">>
DocRelPath(i) == <<"android", "app", "src", "main", "res", DocBuckets[i], "ic_launcher.png">>
DocPath(i) == project_root \o DocRelPath(i)
DocPaths == {DocPath(i) : i \in 1..5}

\* c is the complete stream of a size x size image in teal (0,150,136):
\* every position of it is fixed here.
IsIconFile(c, size) ==
    /\ Len(c) = 50
    /\ SubSeq(c, 1, 8) = <<137, 80, 78, 71, 13, 10, 26, 10>>
    /\ SubSeq(c, 9, 16) = <<0, 0, 0, 13, 73, 72, 68, 82>>
    /\ SubSeq(c, 17, 24) = BE4(size) \o BE4(size)
    /\ SubSeq(c, 25, 29) = <<8, 2, 0, 0, 0>>
    /\ SubSeq(c, 30, 33) = crc32(SubSeq(c, 13, 29))
    /\ SubSeq(c, 34, 38) = <<-1 - size, -1 - size, -1 - 0, -1 - 150, -1 - 136>>
    /\ SubSeq(c, 39, 50) = <<0, 0, 0, 0, 73, 69, 78, 68, 174, 66, 96, 130>>

\* The j-th file event of a run in which nothing fails.
ExpectedEvent(j) ==
    IF j > 20 THEN Event("finish", 0)
    ELSE Event(<<"open", "write", "close", "print">>[((j - 1) % 4) + 1], ((j - 1) \div 4) + 1)

DocCreatedLine(i) == [text |-> "  Created", path |-> DocRelPath(i), size |-> DocSizes[i]]

Prints(f) == Cardinality({j \in 1..Len(f.log) : f.log[j].ev = "print"})

----------------------------------------------------------------------------
(* Properties of main, under Spec.                                          *)

\* C5: in the first run on an empty tree, as long as nothing has failed, the
\* icons are opened, written, closed and reported one after the other in the
\* order 48, 72, 96, 144, 192, each progress line after its icon's write
\* and before the next one's; the completion message comes after the fifth;
\* and at the end there are exactly the five documented files, each the
\* image of its documented size in teal.
C5_FullRun ==
    \A p \in DOMAIN procs :
        LET f == procs[p]
            n == Prints(f)
        IN  (fs0 = EmptyTree /\ f.run = 1 /\ f.exc = "none") =>
              /\ \A j \in 1..Len(f.log) : f.log[j] = ExpectedEvent(j)
              /\ f.pc # "main" => f.stdout[1] = GeneratingLine
              /\ Len(f.stdout) = (IF f.pc = "main" THEN 0 ELSE 1) + n
                                   + (IF f.pc = "done" THEN 3 ELSE 0)
              /\ \A i \in 1..n : f.stdout[1 + i] = DocCreatedLine(i)
              /\ f.pc = "done" =>
                    /\ Len(f.log) = 21
                    /\ SubSeq(f.stdout, 7, 9) = FinishLines
                    /\ DOMAIN files = DocPaths
                    /\ \A i \in 1..5 : IsIconFile(files[DocPath(i)], DocSizes[i])

C5_Witness ==
    \E p \in DOMAIN procs :
        /\ fs0 = EmptyTree /\ procs[p].run = 1 /\ procs[p].pc = "done"
        /\ Len(procs[p].stdout) = 9

\* C6: once the write of the k-th icon has failed the run has stopped: it
\* printed the first line and the progress lines of icons 1..k-1 and nothing
\* else, it touched no icon after the k-th and the k-th only once, and the
\* files of icons 1..k-1 are on disk, complete.
C6_FailureStopsRun ==
    \A p \in DOMAIN procs :
        LET f == procs[p]
        IN  f.exc # "none" =>
              /\ f.pc \in {"raised", "failed"}
              /\ f.k \in 1..5
              /\ f.stdout = <<GeneratingLine>> \o [i \in 1..(f.k - 1) |-> DocCreatedLine(i)]
              /\ \A j \in 1..Len(f.log) :
                    /\ f.log[j].ev # "finish"
                    /\ f.log[j].k <= f.k
                    /\ f.log[j].k = f.k => f.log[j].ev # "print"
              /\ Cardinality({j \in 1..Len(f.log) : f.log[j].k = f.k /\ f.log[j].ev = "open"}) <= 1
              /\ \A i \in 1..(f.k - 1) :
                    /\ DocPath(i) \in DOMAIN files
                    /\ IsIconFile(files[DocPath(i)], DocSizes[i])

C6_Witness ==
    \E p \in DOMAIN procs :
        /\ procs[p].pc = "failed" /\ procs[p].exc = "OSError" /\ procs[p].k = 3
        /\ fs0 = EmptyTree
        /\ procs[p].log[Len(procs[p].log)] = Event("write failed", 3)

\* C7: when a run ends, each of the five files is the stream of its icon,
\* whatever was at its path before (nothing, or an older and longer file),
\* and a run that follows a completed run leaves every file as that run left
\* it.
C7_Idempotent ==
    \A p \in DOMAIN procs :
        LET f == procs[p]
        IN  f.pc = "done" =>
              /\ \A i \in 1..5 :
                    /\ DocPath(i) \in DOMAIN files
                    /\ IsIconFile(files[DocPath(i)], DocSizes[i])
              /\ (f.run > 1 /\ f.prev_done) =>
                    \A i \in 1..5 : files[DocPath(i)] = f.prev_files[DocPath(i)]

C7_Witness ==
    \E p \in DOMAIN procs :
        /\ procs[p].pc = "done" /\ procs[p].run = 2 /\ procs[p].prev_done
        /\ fs0 = StaleTree

----------------------------------------------------------------------------
(* Property of two concurrent runs, under SpecConc.                         *)

\* C8: neither run ever fails, and once both have ended the five files are
\* there, each the complete stream of its icon.
C8_ConcurrentRuns ==
    /\ \A p \in DOMAIN procs :
          procs[p].exc = "none" /\ procs[p].pc \notin {"raised", "failed"}
    /\ (\A p \in DOMAIN procs : procs[p].pc = "done") =>
          /\ DOMAIN files = DocPaths
          /\ \A i \in 1..5 : IsIconFile(files[DocPath(i)], DocSizes[i])

\* Both runs ended after one of them found a shared directory made by the
\* other between its own test and its mkdir.
C8_Witness ==
    /\ \A p \in DOMAIN procs : procs[p].pc = "done"
    /\ \E p \in DOMAIN procs : (project_root \o ResDir) \in procs[p].eexist

====
